---------------------------- MODULE Spec2Model ----------------------------
(***************************************************************************)
(* Model of app.py, a Streamlit dashboard: the price pipeline              *)
(* (get_price_data), the news pipeline (get_filtered_news), the            *)
(* st.cache_data(ttl=600) layer both are wrapped in, the sidebar input     *)
(* parsing and the refresh button.                                         *)
(*                                                                         *)
(* A Python str is a sequence of one-character strings.  TLC's strings are *)
(* ASCII, so a non-ASCII character is written as its code point, "U+898F". *)
(***************************************************************************)
EXTENDS Integers, Sequences, FiniteSets, TLC

VARIABLES
    pc,                 \* position of the script: "idle", "price" (line 175), "news" (line 200)
    coin_ids_to_fetch,  \* line 153/156
    keywords_to_use,    \* line 160/163
    cache,              \* st.cache_data: per function, a set of [args, value, age]
    price_data,         \* line 175
    news_data,          \* line 200
    priceCall,          \* what the last get_price_data call did
    newsCall,           \* what the last get_filtered_news call did
    priceResponse,      \* what the price API answered to the last executed get_price_data
    feedResponses,      \* what the feed hosts answered to the last executed get_filtered_news
    computed,           \* per function: the last call whose body ran, and the time since
    cleared             \* per function: the cache was cleared and the function not called since

vars == <<pc, coin_ids_to_fetch, keywords_to_use, cache, price_data, news_data,
          priceCall, newsCall, priceResponse, feedResponses, computed, cleared>>

\* An optional value (a dict key that may be missing, a value that may be None)
\* is a sequence of length 0 or 1.
None == <<>>
Some(v) == <<v>>

---------------------------------------------------------------------------
(* Bounds of the model. *)

\* longest generated feed title
MaxTitleLen == 2
\* longest generated keyword input text
MaxInputLen == 4
\* longest generated feed tail (the entries after the padding)
MaxEntries == 2

---------------------------------------------------------------------------
(* Python str operations. *)

UpperCase == <<"A","B","C","D","E","F","G","H","I","J","K","L","M",
               "N","O","P","Q","R","S","T","U","V","W","X","Y","Z">>
LowerCase == <<"a","b","c","d","e","f","g","h","i","j","k","l","m",
               "n","o","p","q","r","s","t","u","v","w","x","y","z">>

LowerChar(c) ==
    IF \E i \in 1..Len(UpperCase) : UpperCase[i] = c
    THEN LowerCase[CHOOSE i \in 1..Len(UpperCase) : UpperCase[i] = c]
    ELSE c

\* str.lower()
StrLower(s) == [i \in 1..Len(s) |-> LowerChar(s[i])]

IsSpace(c) == c = " "

RECURSIVE LStrip(_)
LStrip(s) == IF s # <<>> /\ IsSpace(Head(s)) THEN LStrip(Tail(s)) ELSE s

RECURSIVE RStrip(_)
RStrip(s) ==
    IF s # <<>> /\ IsSpace(s[Len(s)]) THEN RStrip(SubSeq(s, 1, Len(s) - 1)) ELSE s

\* str.strip()
Strip(s) == RStrip(LStrip(s))

\* str.split(','): the pieces between the commas, empty pieces kept
RECURSIVE SplitComma(_)
SplitComma(s) ==
    IF \E i \in 1..Len(s) : s[i] = ","
    THEN LET i == CHOOSE k \in 1..Len(s) : s[k] = "," /\ \A j \in 1..(k-1) : s[j] # ","
         IN  <<SubSeq(s, 1, i - 1)>> \o SplitComma(SubSeq(s, i + 1, Len(s)))
    ELSE <<s>>

\* sub in s
Contains(sub, s) ==
    \E i \in 0..(Len(s) - Len(sub)) : SubSeq(s, i + 1, i + Len(sub)) = sub

---------------------------------------------------------------------------
(* Configuration, lines 8-28. *)

default_coin_ids ==
    << <<"e","t","h","e","r","e","u","m">>, <<"s","o","l","a","n","a">>,
       <<"s","u","i">>, <<"o","n","d","o","-","f","i","n","a","n","c","e">> >>

default_keywords ==
    << <<"e","t","h">>, <<"e","t","h","e","r","e","u","m">>, <<"s","o","l">>,
       <<"s","o","l","a","n","a">>, <<"s","u","i">>, <<"o","n","d","o">>,
       <<"b","i","t","c","o","i","n">>, <<"b","t","c">>,
       <<"U+898F","U+5236">>,
       <<"U+30A2","U+30C3","U+30D7","U+30C7","U+30FC","U+30C8">>,
       <<"n","f","t">>, <<"d","e","f","i">>, <<"w","e","b","3">>,
       <<"U+30D0","U+30A4","U+30CA","U+30F3","U+30B9">> >>

\* the keys of rss_feeds, in the dict's (insertion) order
rss_feeds == <<"CoinTelegraph Japan", "Atarashii Keizai">>

max_entries_to_fetch == 20
\* ttl of both st.cache_data decorators, in seconds
ttl == 600

---------------------------------------------------------------------------
(* Sidebar input parsing, lines 152-163. *)

RECURSIVE StripNonEmpty(_)
\* [x.strip() for x in parts if x.strip()]
StripNonEmpty(parts) ==
    IF parts = <<>> THEN <<>>
    ELSE (IF Strip(Head(parts)) # <<>> THEN <<Strip(Head(parts))>> ELSE <<>>)
         \o StripNonEmpty(Tail(parts))

ParseCoinIds(coin_ids_input) ==
    LET parsed == StripNonEmpty(SplitComma(coin_ids_input))
    IN  IF parsed = <<>> THEN default_coin_ids ELSE parsed

ParseKeywords(keywords_input) ==
    LET stripped == StripNonEmpty(SplitComma(keywords_input))
        parsed   == [i \in 1..Len(stripped) |-> StrLower(stripped[i])]
    IN  IF parsed = <<>> THEN default_keywords ELSE parsed

---------------------------------------------------------------------------
(* time.strftime and datetime.strptime, lines 112-118 and 132-136.         *)
(* A struct_time is [Y, m, d, H, M, S].                                    *)

Digits == <<"0","1","2","3","4","5","6","7","8","9">>

RECURSIVE NumStr(_)
\* the decimal digits of n >= 0, without padding
NumStr(n) == IF n < 10 THEN <<Digits[n + 1]>>
             ELSE NumStr(n \div 10) \o <<Digits[(n % 10) + 1]>>

\* %m, %d, %H, %M: two digits, zero padded
Pad2(n) == <<Digits[(n \div 10) + 1], Digits[(n % 10) + 1]>>

\* time.strftime raises ValueError for a field out of range
StrftimeRaises(t) ==
    ~ (/\ t.m \in 0..12 /\ t.d \in 0..31 /\ t.H \in 0..23
       /\ t.M \in 0..59 /\ t.S \in 0..61)

\* time.strftime('%Y-%m-%d %H:%M', t); month 0 and day 0 are taken as 1
Strftime(t) ==
    NumStr(t.Y) \o <<"-">> \o Pad2(IF t.m = 0 THEN 1 ELSE t.m) \o <<"-">>
    \o Pad2(IF t.d = 0 THEN 1 ELSE t.d) \o <<" ">> \o Pad2(t.H) \o <<":">> \o Pad2(t.M)

\* line 112 and line 118: the two placeholder texts
DateUnknown == <<"U+65E5","U+6642","U+4E0D","U+660E">>
DateInvalid == <<"U+4E0D","U+6B63","U+306A","U+65E5","U+6642">>

IsDigit(c) == \E i \in 1..10 : Digits[i] = c
DigitVal(c) == (CHOOSE i \in 1..10 : Digits[i] = c) - 1
Num2(s, i) == DigitVal(s[i]) * 10 + DigitVal(s[i + 1])

DaysIn(Y, m) ==
    IF m \in {4, 6, 9, 11} THEN 30
    ELSE IF m = 2 THEN (IF (Y % 4 = 0 /\ Y % 100 # 0) \/ Y % 400 = 0 THEN 29 ELSE 28)
    ELSE 31

\* whether datetime.strptime(s, '%Y-%m-%d %H:%M') succeeds, for the zero-padded
\* form strftime writes (any other text raises ValueError)
StrptimeOk(s) ==
    /\ Len(s) = 16
    /\ \A i \in {1,2,3,4,6,7,9,10,12,13,15,16} : IsDigit(s[i])
    /\ s[5] = "-" /\ s[8] = "-" /\ s[11] = " " /\ s[14] = ":"
    /\ LET Y == Num2(s, 1) * 100 + Num2(s, 3)
       IN  /\ Y >= 1
           /\ Num2(s, 6) \in 1..12
           /\ Num2(s, 9) \in 1..DaysIn(Y, Num2(s, 6))
           /\ Num2(s, 12) \in 0..23
           /\ Num2(s, 15) \in 0..59

\* a datetime as the number of minutes since 0001-01-01 00:00 on a calendar of
\* 12 months of 31 days (monotone in the datetime order)
Minutes(Y, m, d, H, M) == ((((Y - 1) * 12 + (m - 1)) * 31 + (d - 1)) * 24 + H) * 60 + M

datetime_min == Minutes(1, 1, 1, 0, 0)

\* get_sort_key, lines 132-136
get_sort_key(news_item) ==
    LET s == news_item.published
    IN  IF StrptimeOk(s)
        THEN Minutes(Num2(s, 1) * 100 + Num2(s, 3), Num2(s, 6), Num2(s, 9),
                     Num2(s, 12), Num2(s, 15))
        ELSE datetime_min

RECURSIVE InsertDesc(_, _)
\* x placed after every element whose key is >= its own
InsertDesc(sorted, x) ==
    IF sorted # <<>> /\ get_sort_key(Head(sorted)) >= get_sort_key(x)
    THEN <<Head(sorted)>> \o InsertDesc(Tail(sorted), x)
    ELSE <<x>> \o sorted

RECURSIVE InsertAsc(_, _)
InsertAsc(sorted, x) ==
    IF sorted # <<>> /\ get_sort_key(Head(sorted)) <= get_sort_key(x)
    THEN <<Head(sorted)>> \o InsertAsc(Tail(sorted), x)
    ELSE <<x>> \o sorted

RECURSIVE SortAsc(_)
\* as SortDesc, without reverse=True
SortAsc(list) ==
    IF list = <<>> THEN <<>>
    ELSE InsertAsc(SortAsc(SubSeq(list, 1, Len(list) - 1)), list[Len(list)])

RECURSIVE SortDesc(_)
\* list.sort(key=get_sort_key, reverse=True), line 137: stable
SortDesc(list) ==
    IF list = <<>> THEN <<>>
    ELSE InsertDesc(SortDesc(SubSeq(list, 1, Len(list) - 1)), list[Len(list)])

---------------------------------------------------------------------------
(* get_price_data, lines 33-64.                                            *)
(* The API's answer is [kind, data]: kind "transport" (requests.get        *)
(* raises), "status" (raise_for_status raises), "unexpected" (any other    *)
(* exception, as from response.json()), or "json" with the decoded data, a *)
(* sequence of dicts whose missing keys are None.                          *)

\* dict.get(key, default)
Get(value, default) == IF value = None THEN default ELSE value[1]

NA == <<"N","/","A">>

price_info(coin_data) ==
    [id                          |-> Get(coin_data.id, NA),
     name                        |-> Get(coin_data.name, NA),
     current_price               |-> Get(coin_data.current_price, 0),
     price_change_percentage_24h |-> Get(coin_data.price_change_percentage_24h, 0),
     market_cap                  |-> Get(coin_data.market_cap, 0)]

\* the exception a host's answer makes the fetching code raise
ExceptionOf(kind) ==
    IF kind \in {"transport", "status"} THEN "RequestException"
    ELSE IF kind \in {"unexpected", "parse_raises"} THEN "Exception"
    ELSE "none"

\* RequestException is a subclass of Exception: "except Exception" catches both
IsCaught(exc, handlers) ==
    exc \in handlers \/ (exc = "RequestException" /\ "Exception" \in handlers)

\* the except clause that takes the exception: the first of the clauses, in the
\* order written, that catches it
ClauseFor(exc, handlers) == IF exc \in handlers THEN exc ELSE "Exception"

\* the except clauses of lines 59 and 62
PriceHandlers == {"RequestException", "Exception"}

Raised == [value |-> <<>>, requests |-> 1, messages |-> <<>>, raised |-> TRUE]

\* lines 38-64: the request and what is made of its answer
request_prices(response) ==
    IF ExceptionOf(response.kind) # "none"
    THEN IF IsCaught(ExceptionOf(response.kind), PriceHandlers)
         THEN [value |-> <<>>, requests |-> 1,
               messages |-> <<[level |-> "error",
                               what |-> ClauseFor(ExceptionOf(response.kind), PriceHandlers)]>>,
               raised |-> FALSE]
         ELSE Raised
    ELSE IF response.data = <<>>
    THEN [value |-> <<>>, requests |-> 1,
          messages |-> <<[level |-> "error", what |-> "no data"]>>, raised |-> FALSE]
    ELSE [value |-> [i \in 1..Len(response.data) |-> price_info(response.data[i])],
          requests |-> 1,
          messages |-> <<[level |-> "success", what |-> "done"]>>, raised |-> FALSE]

\* as get_price_data, a failed request made a second time
get_price_data_retry(coin_ids, response) ==
    IF coin_ids = <<>>
    THEN [value |-> <<>>, requests |-> 0, messages |-> <<>>, raised |-> FALSE]
    ELSE IF ExceptionOf(response.kind) # "none"
    THEN [request_prices(response) EXCEPT !.requests = 2]
    ELSE request_prices(response)

\* the body of get_price_data: [value, requests, messages, raised]
get_price_data(coin_ids, response) ==
    IF coin_ids = <<>>
    THEN [value |-> <<>>, requests |-> 0, messages |-> <<>>, raised |-> FALSE]
    ELSE request_prices(response)

---------------------------------------------------------------------------
(* get_filtered_news, lines 69-140.                                        *)
(* A feed host's answer is [kind, bozo, entries]: kind "transport",        *)
(* "status", "unexpected" (lines 84-89), "empty" (an empty body, line 91), *)
(* "parse_raises" (feedparser.parse raises, line 128) or "parsed" with the *)
(* parsed entries.  An entry is [title, link, published_parsed,            *)
(* updated_parsed], a missing key None.                                    *)

RECURSIVE matched_keyword_no_break(_, _)
\* as matched_keyword, the loop of line 106 run to its end: the last match is kept
matched_keyword_no_break(keywords, title_lower) ==
    IF keywords = <<>> THEN <<>>
    ELSE IF matched_keyword_no_break(Tail(keywords), title_lower) # <<>>
         THEN matched_keyword_no_break(Tail(keywords), title_lower)
    ELSE IF Contains(Head(keywords), title_lower) THEN Head(keywords)
    ELSE <<>>

RECURSIVE matched_keyword(_, _)
\* lines 105-109: the first keyword of the list that is in the title, else ""
matched_keyword(keywords, title_lower) ==
    IF keywords = <<>> THEN <<>>
    ELSE IF Contains(Head(keywords), title_lower) THEN Head(keywords)
    ELSE matched_keyword(Tail(keywords), title_lower)

\* as published_time_str, the updated time taken before the published time
published_time_str_updated_first(entry) ==
    LET published_parsed == IF entry.updated_parsed # None
                            THEN entry.updated_parsed ELSE entry.published_parsed
    IN  IF published_parsed = None THEN DateUnknown
        ELSE IF StrftimeRaises(published_parsed[1]) THEN DateInvalid
        ELSE Strftime(published_parsed[1])

\* lines 112-118
published_time_str(entry) ==
    LET published_parsed == IF entry.published_parsed # None
                            THEN entry.published_parsed ELSE entry.updated_parsed
    IN  IF published_parsed = None THEN DateUnknown
        ELSE IF StrftimeRaises(published_parsed[1]) THEN DateInvalid
        ELSE Strftime(published_parsed[1])

\* parsed_data.entries[:max_entries_to_fetch], line 101
Considered(entries) ==
    SubSeq(entries, 1, IF Len(entries) < max_entries_to_fetch
                       THEN Len(entries) ELSE max_entries_to_fetch)

RECURSIVE EntryItems(_, _, _)
\* lines 101-127: the items appended for the given entries, in order
EntryItems(site_name, entries, keywords) ==
    IF entries = <<>> THEN <<>>
    ELSE LET entry == Head(entries)
             title == Get(entry.title, <<>>)
             link  == Get(entry.link, <<"#">>)
             kw    == matched_keyword(keywords, StrLower(title))
         IN  (IF kw # <<>>
              THEN <<[site |-> site_name, keyword |-> kw, title |-> title,
                      link |-> link, published |-> published_time_str(entry)]>>
              ELSE <<>>)
             \o EntryItems(site_name, Tail(entries), keywords)

\* as SourceItems, the cut to max_entries_to_fetch made on the items kept
SourceItemsCutAfter(site_name, entries, keywords) ==
    Considered(EntryItems(site_name, entries, keywords))

\* the loop of line 101 over the entries of one source
SourceItems(site_name, entries, keywords) ==
    EntryItems(site_name, Considered(entries), keywords)

\* the except clauses of lines 84 and 87, and of line 128
FetchHandlers == {"RequestException", "Exception"}
ParseHandlers == {"Exception"}

Warning(what, site_name) == [level |-> "warning", what |-> what, site |-> site_name]

\* lines 79-129 for one source: [items, messages, raised]
SourceResult(site_name, response, keywords) ==
    IF response.kind \in {"transport", "status", "unexpected"}
    THEN [items |-> <<>>,
          messages |-> <<Warning(ClauseFor(ExceptionOf(response.kind), FetchHandlers),
                                 site_name)>>,
          raised |-> ~IsCaught(ExceptionOf(response.kind), FetchHandlers)]
    ELSE IF response.kind = "empty"
    THEN [items |-> <<>>, messages |-> <<>>, raised |-> FALSE]
    ELSE IF response.kind = "parse_raises"
    THEN [items |-> <<>>, messages |-> <<Warning("parse", site_name)>>,
          raised |-> ~IsCaught(ExceptionOf(response.kind), ParseHandlers)]
    ELSE [items |-> SourceItems(site_name, response.entries, keywords),
          messages |-> IF response.bozo THEN <<Warning("bozo", site_name)>> ELSE <<>>,
          raised |-> FALSE]

RECURSIVE CollectUntilFailure(_, _, _)
\* as Collect, a source's failure ending the loop instead of continuing it
CollectUntilFailure(i, responses, keywords) ==
    IF i > Len(rss_feeds)
    THEN [items |-> <<>>, requests |-> 0, messages |-> <<>>, raised |-> FALSE]
    ELSE LET one  == SourceResult(rss_feeds[i], responses[i], keywords)
             rest == CollectUntilFailure(i + 1, responses, keywords)
         IN  IF one.raised
             THEN [items |-> <<>>, requests |-> 1, messages |-> <<>>, raised |-> TRUE]
             ELSE IF ExceptionOf(responses[i].kind) # "none"
             THEN [items |-> <<>>, requests |-> 1, messages |-> one.messages,
                   raised |-> FALSE]
             ELSE [items    |-> one.items \o rest.items,
                   requests |-> 1 + rest.requests,
                   messages |-> one.messages \o rest.messages,
                   raised   |-> rest.raised]

RECURSIVE Collect(_, _, _)
\* the loop of line 77 over the sources from index i on:
\* [items, requests, messages, raised]; an exception that is not caught ends it
Collect(i, responses, keywords) ==
    IF i > Len(rss_feeds)
    THEN [items |-> <<>>, requests |-> 0, messages |-> <<>>, raised |-> FALSE]
    ELSE LET one  == SourceResult(rss_feeds[i], responses[i], keywords)
             rest == Collect(i + 1, responses, keywords)
         IN  IF one.raised
             THEN [items |-> <<>>, requests |-> 1, messages |-> <<>>, raised |-> TRUE]
             ELSE [items    |-> one.items \o rest.items,
                   requests |-> 1 + rest.requests,
                   messages |-> one.messages \o rest.messages,
                   raised   |-> rest.raised]

\* lines 74-140: the sources are read, the items sorted
fetch_and_filter(keywords, responses) ==
    LET all == Collect(1, responses, keywords)
    IN  IF all.raised
        THEN [value |-> <<>>, requests |-> all.requests, messages |-> <<>>,
              raised |-> TRUE]
        ELSE [value    |-> SortDesc(all.items),
              requests |-> all.requests,
              messages |-> all.messages
                           \o <<[level |-> "success", what |-> "done", site |-> "all"]>>,
              raised   |-> FALSE]

\* as get_filtered_news, without line 72
get_filtered_news_no_guard(keywords, responses) == fetch_and_filter(keywords, responses)

\* the body of get_filtered_news: [value, requests, messages, raised]
get_filtered_news(keywords, responses) ==
    IF keywords = <<>>
    THEN [value |-> <<>>, requests |-> 0, messages |-> <<>>, raised |-> FALSE]
    ELSE fetch_and_filter(keywords, responses)

---------------------------------------------------------------------------
(* st.cache_data(ttl=600), lines 32 and 68: each decorated function has a  *)
(* cache keyed by its arguments; an entry is served until it is ttl        *)
(* seconds old.  st.cache_data.clear() (line 172) empties them all.        *)

Fns == {"get_price_data", "get_filtered_news"}

\* as CacheLive, for a ttl of 60
CacheLiveMinute(e) == e.age < ttl \div 10

CacheLive(e) == e.age < ttl

Lookup(fn, args) == {e \in cache[fn] : e.args = args /\ CacheLive(e)}

\* as Stored, an empty result not kept
StoredUnlessEmpty(fn, args, value) ==
    IF value = <<>> THEN cache
    ELSE [cache EXCEPT ![fn] = {e \in @ : e.args # args}
                               \cup {[args |-> args, value |-> value, age |-> 0]}]

Stored(fn, args, value) ==
    [cache EXCEPT ![fn] = {e \in @ : e.args # args}
                          \cup {[args |-> args, value |-> value, age |-> 0]}]

EmptyCache == [fn \in Fns |-> {}]

\* as CacheClear, only the entries of the inputs now configured dropped
CacheClearCurrent ==
    [fn \in Fns |-> {e \in cache[fn] :
                        e.args # (IF fn = "get_price_data"
                                  THEN coin_ids_to_fetch ELSE keywords_to_use)}]

\* st.cache_data.clear(), line 172
CacheClear == [fn \in Fns |-> {}]

\* the time the entries have been held grows by d; an entry that reaches ttl is gone
Aged(d) ==
    [fn \in Fns |-> {x \in {[e EXCEPT !.age = @ + d] : e \in cache[fn]} : CacheLive(x)}]

\* the time since the last executed call of each function, counted up to ttl
ComputedAged(d) ==
    [fn \in Fns |-> IF computed[fn] = None THEN None
                    ELSE Some([computed[fn][1] EXCEPT
                               !.age = IF @ + d < ttl THEN @ + d ELSE ttl])]

---------------------------------------------------------------------------
(* The script, lines 146-225, run top to bottom on every interaction.      *)

RECURSIVE JoinComma(_)
\* ','.join(parts)
JoinComma(parts) ==
    IF parts = <<>> THEN <<>>
    ELSE IF Len(parts) = 1 THEN parts[1]
    ELSE parts[1] \o <<",">> \o JoinComma(Tail(parts))

NoCall == [requests |-> 0, messages |-> <<>>, hit |-> FALSE, raised |-> FALSE]
NoPriceResponse == [kind |-> "none", data |-> <<>>]
NoFeedResponses == [i \in 1..Len(rss_feeds) |-> [kind |-> "none", bozo |-> FALSE, entries |-> <<>>]]

\* a run starts with none of the script's variables bound and nothing fetched
ScriptStart ==
    /\ price_data' = <<>>
    /\ news_data' = <<>>
    /\ priceCall' = NoCall
    /\ newsCall' = NoCall
    /\ priceResponse' = NoPriceResponse
    /\ feedResponses' = NoFeedResponses

\* lines 152-163: the two text inputs are read and parsed; the button is not pressed
RunScript(coin_ids_input, keywords_input) ==
    /\ pc = "idle"
    /\ coin_ids_to_fetch' = ParseCoinIds(coin_ids_input)
    /\ keywords_to_use' = ParseKeywords(keywords_input)
    /\ pc' = "price"
    /\ ScriptStart
    /\ UNCHANGED <<cache, computed, cleared>>

\* lines 170-173: the button is pressed; the caches are cleared and the script
\* is run again from the top with the same inputs
Refresh ==
    /\ pc = "idle"
    /\ cache' = CacheClear
    /\ cleared' = [fn \in Fns |-> TRUE]
    /\ pc' = "price"
    /\ ScriptStart
    /\ UNCHANGED <<coin_ids_to_fetch, keywords_to_use, computed>>

\* line 175: price_data = get_price_data(coin_ids_to_fetch).  A cached value is
\* served without running the body; a value the body returns is cached; an
\* exception the body raises ends the run of the script.
CallPrice(response) ==
    /\ pc = "price"
    /\ LET hit == Lookup("get_price_data", coin_ids_to_fetch)
           r   == get_price_data(coin_ids_to_fetch, response)
       IN  IF hit # {}
           THEN /\ price_data' = (CHOOSE e \in hit : TRUE).value
                /\ priceCall' = [requests |-> 0, messages |-> <<>>, hit |-> TRUE,
                                 raised |-> FALSE]
                /\ pc' = "news"
                /\ UNCHANGED <<cache, priceResponse, computed>>
           ELSE /\ price_data' = r.value
                /\ priceCall' = [requests |-> r.requests, messages |-> r.messages,
                                 hit |-> FALSE, raised |-> r.raised]
                /\ priceResponse' = response
                /\ IF r.raised
                   THEN pc' = "idle" /\ UNCHANGED <<cache, computed>>
                   ELSE /\ pc' = "news"
                        /\ cache' = Stored("get_price_data", coin_ids_to_fetch, r.value)
                        /\ computed' = [computed EXCEPT !["get_price_data"] =
                              Some([args |-> coin_ids_to_fetch, value |-> r.value,
                                    messages |-> r.messages, age |-> 0])]
    /\ cleared' = [cleared EXCEPT !["get_price_data"] = FALSE]
    /\ UNCHANGED <<coin_ids_to_fetch, keywords_to_use, news_data, newsCall, feedResponses>>

\* line 200: news_data = get_filtered_news(keywords_to_use)
CallNews(responses) ==
    /\ pc = "news"
    /\ LET hit == Lookup("get_filtered_news", keywords_to_use)
           r   == get_filtered_news(keywords_to_use, responses)
       IN  IF hit # {}
           THEN /\ news_data' = (CHOOSE e \in hit : TRUE).value
                /\ newsCall' = [requests |-> 0, messages |-> <<>>, hit |-> TRUE,
                                raised |-> FALSE]
                /\ UNCHANGED <<cache, feedResponses, computed>>
           ELSE /\ news_data' = r.value
                /\ newsCall' = [requests |-> r.requests, messages |-> r.messages,
                                hit |-> FALSE, raised |-> r.raised]
                /\ feedResponses' = responses
                /\ IF r.raised
                   THEN UNCHANGED <<cache, computed>>
                   ELSE /\ cache' = Stored("get_filtered_news", keywords_to_use, r.value)
                        /\ computed' = [computed EXCEPT !["get_filtered_news"] =
                              Some([args |-> keywords_to_use, value |-> r.value,
                                    messages |-> r.messages, age |-> 0])]
    /\ cleared' = [cleared EXCEPT !["get_filtered_news"] = FALSE]
    /\ pc' = "idle"
    /\ UNCHANGED <<coin_ids_to_fetch, keywords_to_use, price_data, priceCall, priceResponse>>

\* d seconds pass between two runs of the script
Advance(d) ==
    /\ pc = "idle"
    /\ cache # EmptyCache
    /\ cache' = Aged(d)
    /\ computed' = ComputedAged(d)
    /\ UNCHANGED <<pc, coin_ids_to_fetch, keywords_to_use, price_data, news_data,
                   priceCall, newsCall, priceResponse, feedResponses, cleared>>

---------------------------------------------------------------------------
(* The dashboard: the inputs a user types and the answers the hosts give.  *)

Failure(kind) == [kind |-> kind, bozo |-> FALSE, entries |-> <<>>]
Parsed(bozo, entries) == [kind |-> "parsed", bozo |-> bozo, entries |-> entries]

Time(Y, m, d, H, M, S) == [Y |-> Y, m |-> m, d |-> d, H |-> H, M |-> M, S |-> S]

Entry(title, published, updated) ==
    [title |-> Some(title), link |-> Some(<<"l">>),
     published_parsed |-> published, updated_parsed |-> updated]

\* an entry of the padding of a long feed
PadEntry(title) ==
    [title |-> Some(title), link |-> Some(<<"p">>),
     published_parsed |-> None, updated_parsed |-> None]

DashCoinTexts == { <<>>, <<" ","B",","," ","t",",">> }

DashKeywordTexts == { <<" ",",">>, <<" ","S",","," ","e">> }

DashPriceResponses ==
    { [kind |-> "transport", data |-> <<>>],
      [kind |-> "status", data |-> <<>>],
      [kind |-> "unexpected", data |-> <<>>],
      [kind |-> "json", data |-> <<>>],
      [kind |-> "json",
       data |-> <<[id |-> Some(<<"t">>), name |-> None, current_price |-> Some(5),
                   price_change_percentage_24h |-> None, market_cap |-> Some(7)]>>] }

DashFeeds ==
    { Failure("transport"),
      Parsed(FALSE, <<Entry(<<"E","T","H"," ","e","s">>,
                            Some(Time(2024, 1, 2, 10, 0, 0)), None)>>) }

DashFeedResponses == [1..Len(rss_feeds) -> DashFeeds]

Delays == {ttl \div 2}

Init ==
    /\ pc = "price"
    /\ coin_ids_to_fetch = ParseCoinIds(JoinComma(default_coin_ids))
    /\ keywords_to_use = ParseKeywords(JoinComma(default_keywords))
    /\ cache = EmptyCache
    /\ price_data = <<>>
    /\ news_data = <<>>
    /\ priceCall = NoCall
    /\ newsCall = NoCall
    /\ priceResponse = NoPriceResponse
    /\ feedResponses = NoFeedResponses
    /\ computed = [fn \in Fns |-> None]
    /\ cleared = [fn \in Fns |-> TRUE]

Next ==
    \/ \E c \in DashCoinTexts, k \in DashKeywordTexts : RunScript(c, k)
    \/ Refresh
    \/ \E response \in DashPriceResponses : CallPrice(response)
    \/ \E responses \in DashFeedResponses : CallNews(responses)
    \/ \E d \in Delays : Advance(d)

Spec == Init /\ [][Next]_vars

---------------------------------------------------------------------------
(* The two pipeline functions on their own: the arguments and the hosts'   *)
(* answers are drawn at the start, then each function is called once.      *)

SeqsUpTo(S, n) == UNION {[1..k -> S] : k \in 0..n}

TitleAlphabet == {"e", "S", "x"}
Titles == SeqsUpTo(TitleAlphabet, MaxTitleLen)

InputAlphabet == {"e", "S", ",", " "}
InputTexts == SeqsUpTo(InputAlphabet, MaxInputLen)

\* every keyword list the sidebar can hand over for these texts
AllKeywordLists == {ParseKeywords(t) : t \in InputTexts}

\* the default list, a two-keyword list, and the empty list of line 72
SmallKeywordLists == {ParseKeywords(t) : t \in DashKeywordTexts} \cup {<<>>}

T1 == Time(2024, 1, 1, 9, 0, 0)
T2 == Time(2024, 1, 2, 10, 0, 30)
\* a struct_time that time.strftime rejects
BadTime == Time(2024, 13, 1, 0, 0, 0)

FixedFeed == Parsed(FALSE, <<Entry(<<"e","S">>, Some(T1), None)>>)

\* one source answers from feedSet, the other from others, either way round
TwoWays(feedSet, others) ==
    {<<f, o>> : f \in feedSet, o \in others} \cup {<<o, f>> : f \in feedSet, o \in others}

MatchInputs ==
    AllKeywordLists
    \X TwoWays({Parsed(FALSE, <<Entry(t, Some(T2), None)>>) : t \in Titles}, {FixedFeed})

TimeFields == {None, Some(T1), Some(T2), Some(BadTime)}
TimeEntries == {Entry(<<"e","S">>, p, u) : p \in TimeFields, u \in TimeFields}

TimeInputs ==
    {ParseKeywords(<<" ","S",","," ","e">>)}
    \X TwoWays({Parsed(FALSE, d) : d \in SeqsUpTo(TimeEntries, MaxEntries)},
               {FixedFeed, Failure("transport")})

Pad(title, n) == [i \in 1..n |-> PadEntry(title)]
TailEntries == {Entry(<<"S">>, Some(T2), None), Entry(<<"x">>, None, None)}
PadDocs ==
    {Pad(t, n) \o tail : t \in {<<"x">>, <<"e","S">>},
                         n \in {max_entries_to_fetch - 1, max_entries_to_fetch},
                         tail \in SeqsUpTo(TailEntries, MaxEntries)}
    \cup {Pad(<<"e","S">>, max_entries_to_fetch + 5)}

PadInputs ==
    SmallKeywordLists
    \X (TwoWays({Parsed(FALSE, d) : d \in PadDocs}, {FixedFeed})
        \cup {<<Parsed(FALSE, Pad(<<"e","S">>, max_entries_to_fetch + 5)),
                Parsed(FALSE, Pad(<<"e","S">>, max_entries_to_fetch + 5))>>})

\* an entry without a link, then one without a title
OddDoc ==
    <<[title |-> Some(<<"e","S">>), link |-> None,
       published_parsed |-> Some(T2), updated_parsed |-> None],
      [title |-> None, link |-> Some(<<"l">>),
       published_parsed |-> Some(T1), updated_parsed |-> None]>>

Outcomes ==
    {Failure(k) : k \in {"transport", "status", "unexpected", "empty", "parse_raises"}}
    \cup {Parsed(TRUE, OddDoc), Parsed(FALSE, OddDoc), Parsed(FALSE, <<>>)}

OutcomeInputs == SmallKeywordLists \X [1..Len(rss_feeds) -> Outcomes]

ETHSurges == <<"E","T","H"," ","s","u","r","g","e","s">>
RandomUnrelated == <<"R","a","n","d","o","m"," ","u","n","r","e","l","a","t","e","d">>
EthereumAndSolanaRally ==
    <<"E","t","h","e","r","e","u","m"," ","a","n","d"," ",
      "S","o","l","a","n","a"," ","r","a","l","l","y">>

ExampleInputs ==
    {ParseKeywords(<<"e","t","h",",","s","o","l">>),
     ParseKeywords(<<"s","o","l",",","e","t","h">>)}
    \X {<<Parsed(FALSE, <<Entry(ETHSurges, Some(T1), None),
                           Entry(RandomUnrelated, Some(T2), None)>>),
          Parsed(FALSE, <<Entry(EthereumAndSolanaRally, None, Some(T2))>>)>>}

NewsInputs == MatchInputs \cup TimeInputs \cup PadInputs \cup OutcomeInputs \cup ExampleInputs

PriceInputs ==
    {<<>>, default_coin_ids, ParseCoinIds(<<" ","B",","," ","t",",">>)}
    \X DashPriceResponses

InitPipelines ==
    /\ cache = EmptyCache
    /\ price_data = <<>>
    /\ news_data = <<>>
    /\ priceCall = NoCall
    /\ newsCall = NoCall
    /\ computed = [fn \in Fns |-> None]
    /\ cleared = [fn \in Fns |-> TRUE]
    /\ \/ /\ pc = "price"
          /\ \E in \in PriceInputs : coin_ids_to_fetch = in[1] /\ priceResponse = in[2]
          /\ keywords_to_use \in {default_keywords, <<>>}
          /\ feedResponses = <<FixedFeed, FixedFeed>>
       \/ /\ pc = "news"
          /\ coin_ids_to_fetch = default_coin_ids
          /\ priceResponse = NoPriceResponse
          /\ \E in \in NewsInputs : keywords_to_use = in[1] /\ feedResponses = in[2]

NextPipelines ==
    \/ CallPrice(priceResponse)
    \/ CallNews(feedResponses)

SpecPipelines == InitPipelines /\ [][NextPipelines]_vars

---------------------------------------------------------------------------
(* What the claims speak of. *)

\* the body of get_filtered_news ran in this run of the script and has returned
NewsRan == pc = "idle" /\ ~newsCall.hit /\ feedResponses # NoFeedResponses

Sources == 1..Len(rss_feeds)

\* the items of the result that came from source i
ItemsOf(i) == SelectSeq(news_data, LAMBDA it : it.site = rss_feeds[i])

\* the positions of the entries source i handed over that are looked at
ConsideredPositions(i) ==
    IF feedResponses[i].kind = "parsed"
    THEN {j \in 1..Len(feedResponses[i].entries) : j <= max_entries_to_fetch}
    ELSE {}

EntryOf(i, j) == feedResponses[i].entries[j]
TitleOf(e) == IF e.title = None THEN <<>> ELSE e.title[1]
LinkOf(e) == IF e.link = None THEN <<"#">> ELSE e.link[1]

HasMatch(keywords, title) ==
    \E k \in 1..Len(keywords) : Contains(keywords[k], StrLower(title))

FirstInListOrder(keywords, title) ==
    keywords[CHOOSE k \in 1..Len(keywords) :
                /\ Contains(keywords[k], StrLower(title))
                /\ \A m \in 1..(k - 1) : ~Contains(keywords[m], StrLower(title))]

MatchingPositions(i) ==
    {j \in ConsideredPositions(i) : HasMatch(keywords_to_use, TitleOf(EntryOf(i, j)))}

\* C1: an entry is retained exactly when some keyword is in its lower-cased
\* title, and the item's keyword is non-empty and is the first keyword of the
\* caller's list, in list order, that is in the lower-cased title.
C1_FirstKeywordInListOrder ==
    NewsRan =>
        \A i \in Sources :
            /\ Len(ItemsOf(i)) = Cardinality(MatchingPositions(i))
            /\ \A j \in MatchingPositions(i) :
                   \E m \in 1..Len(ItemsOf(i)) :
                       /\ ItemsOf(i)[m].title = TitleOf(EntryOf(i, j))
                       /\ ItemsOf(i)[m].keyword =
                              FirstInListOrder(keywords_to_use, TitleOf(EntryOf(i, j)))
            /\ \A m \in 1..Len(ItemsOf(i)) :
                   /\ ItemsOf(i)[m].keyword # <<>>
                   /\ ItemsOf(i)[m].keyword =
                          FirstInListOrder(keywords_to_use, ItemsOf(i)[m].title)

\* the title names two keywords, the later one of the list earlier in the title and
\* the first one of the list not the longest that matches
C1_Witness ==
    /\ NewsRan
    /\ keywords_to_use = << <<"s">>, <<"e","s">> >>
    /\ \E m \in 1..Len(news_data) :
           news_data[m].title = <<"e","S">> /\ news_data[m].keyword = <<"s">>
    /\ \E i \in Sources : \E j \in ConsideredPositions(i) :
           ~HasMatch(keywords_to_use, TitleOf(EntryOf(i, j)))

IsUnknownTime(it) == it.published \in {DateUnknown, DateInvalid}

\* the fields of a formatted timestamp: <<year, month, day, hour, minute>>
Stamp(it) ==
    <<Num2(it.published, 1) * 100 + Num2(it.published, 3), Num2(it.published, 6),
      Num2(it.published, 9), Num2(it.published, 12), Num2(it.published, 15)>>

\* a is the same time as b or later
NotBefore(a, b) ==
    \/ a = b
    \/ \E k \in 1..5 : a[k] > b[k] /\ \A m \in 1..(k - 1) : a[m] = b[m]

\* C2: the result is in descending order of timestamp across all sources, and
\* every item without a parsed timestamp comes after every item with one.
C2_SortedDescending ==
    NewsRan =>
        \A a \in 1..Len(news_data) : \A b \in (a + 1)..Len(news_data) :
            /\ IsUnknownTime(news_data[a]) => IsUnknownTime(news_data[b])
            /\ (~IsUnknownTime(news_data[a]) /\ ~IsUnknownTime(news_data[b]))
                   => NotBefore(Stamp(news_data[a]), Stamp(news_data[b]))

\* the first source gives the later time and no time, the second the earlier time
C2_Witness ==
    /\ NewsRan
    /\ Len(news_data) = 3
    /\ feedResponses[1].kind = "parsed" /\ Len(feedResponses[1].entries) = 2
    /\ feedResponses[1].entries[1].published_parsed = None
    /\ feedResponses[1].entries[1].updated_parsed = None
    /\ news_data[1].published = Strftime(T2) /\ news_data[1].site = rss_feeds[1]
    /\ news_data[2].published = Strftime(T1) /\ news_data[2].site = rss_feeds[2]
    /\ news_data[3].published = DateUnknown /\ news_data[3].site = rss_feeds[1]

SourceFailed(i) ==
    feedResponses[i].kind \in {"transport", "status", "unexpected", "parse_raises"}

\* C3: with a non-empty keyword list the call raises under no combination
\* of per-source outcomes, every source is asked, and every matching considered
\* entry of a source that was fetched and parsed has its item in the result,
\* whatever happened to the other sources.
C3_FailureIsolation ==
    (NewsRan /\ keywords_to_use # <<>> =>
          /\ ~newsCall.raised
          /\ newsCall.requests = Len(rss_feeds)
          /\ \A i \in Sources : \A j \in MatchingPositions(i) :
                 \E m \in 1..Len(news_data) :
                     /\ news_data[m].site = rss_feeds[i]
                     /\ news_data[m].title = TitleOf(EntryOf(i, j))
                     /\ news_data[m].link = LinkOf(EntryOf(i, j))
          /\ \A i \in Sources : Len(ItemsOf(i)) = Cardinality(MatchingPositions(i))
          /\ \A i \in Sources :
                 SourceFailed(i) =>
                     \E m \in 1..Len(newsCall.messages) :
                         /\ newsCall.messages[m].level = "warning"
                         /\ newsCall.messages[m].site = rss_feeds[i])

\* the first source fails and the second source's item is in the result
C3_Witness ==
    /\ NewsRan
    /\ SourceFailed(1)
    /\ MatchingPositions(2) # {}
    /\ Len(news_data) = 1 /\ news_data[1].site = rss_feeds[2]

\* C6: only the first max_entries_to_fetch entries of a source are looked at:
\* every item of a source comes from one of them, a source contributes at most
\* that many items, and the cut comes before the keyword filter.
C6_TruncateBeforeFilter ==
    NewsRan =>
        \A i \in Sources :
            /\ Len(ItemsOf(i)) <= max_entries_to_fetch
            /\ \A m \in 1..Len(ItemsOf(i)) :
                   \E j \in 1..Len(feedResponses[i].entries) :
                       /\ j <= max_entries_to_fetch
                       /\ ItemsOf(i)[m].title = TitleOf(EntryOf(i, j))
                       /\ ItemsOf(i)[m].link = LinkOf(EntryOf(i, j))
            /\ Len(ItemsOf(i)) =
                   Cardinality({j \in 1..Len(feedResponses[i].entries) :
                                   /\ j <= max_entries_to_fetch
                                   /\ HasMatch(keywords_to_use, TitleOf(EntryOf(i, j)))})

\* twenty entries that do not match, then one that does: nothing from that source
C6_Witness ==
    /\ NewsRan
    /\ \E i \in Sources :
           /\ feedResponses[i].kind = "parsed"
           /\ Len(feedResponses[i].entries) > max_entries_to_fetch
           /\ HasMatch(keywords_to_use,
                       TitleOf(EntryOf(i, max_entries_to_fetch + 1)))
           /\ MatchingPositions(i) = {}
           /\ ItemsOf(i) = <<>>
    /\ news_data # <<>>

\* the text for the time of an entry, as the claim words it
ExpectedTime(e) ==
    LET t == IF e.published_parsed # None THEN e.published_parsed ELSE e.updated_parsed
    IN  IF t = None THEN DateUnknown
        ELSE IF t[1].m > 12 \/ t[1].d > 31 \/ t[1].H > 23 \/ t[1].M > 59 \/ t[1].S > 61
        THEN DateInvalid
        ELSE NumStr(t[1].Y) \o <<"-">> \o Pad2(t[1].m) \o <<"-">> \o Pad2(t[1].d)
             \o <<" ">> \o Pad2(t[1].H) \o <<":">> \o Pad2(t[1].M)

\* C9: a retained entry's timestamp is its published time when it has one,
\* else its updated time, as YYYY-MM-DD HH:MM; it is a placeholder exactly when
\* the entry has neither or the formatting fails, and then the entry is kept
\* and nothing is reported.
C9_PublishedThenUpdated ==
    NewsRan =>
        /\ \A i \in Sources : \A j \in MatchingPositions(i) :
               \E m \in 1..Len(ItemsOf(i)) :
                   /\ ItemsOf(i)[m].title = TitleOf(EntryOf(i, j))
                   /\ ItemsOf(i)[m].published = ExpectedTime(EntryOf(i, j))
        /\ \A i \in Sources :
               \A t \in {DateUnknown, DateInvalid, Strftime(T1), Strftime(T2)} :
                   Cardinality({m \in 1..Len(ItemsOf(i)) : ItemsOf(i)[m].published = t})
                   = Cardinality({j \in MatchingPositions(i) : ExpectedTime(EntryOf(i, j)) = t})
        /\ \A i \in Sources : \A m \in 1..Len(ItemsOf(i)) :
               ItemsOf(i)[m].published \in {DateUnknown, DateInvalid, Strftime(T1), Strftime(T2)}
        /\ \A m \in 1..Len(newsCall.messages) :
               newsCall.messages[m].level = "warning" =>
                   \E i \in Sources :
                       /\ newsCall.messages[m].site = rss_feeds[i]
                       /\ (SourceFailed(i) \/ feedResponses[i].bozo)

\* one entry with both times, one whose published time cannot be formatted though
\* its updated time can: two items, and no warning
C9_Witness ==
    /\ NewsRan
    /\ \E i \in Sources :
           /\ Len(ItemsOf(i)) = 2
           /\ Cardinality(MatchingPositions(i)) = 2
           /\ \E j \in MatchingPositions(i) :
                  /\ EntryOf(i, j).published_parsed = Some(T1)
                  /\ EntryOf(i, j).updated_parsed = Some(T2)
           /\ \E j \in MatchingPositions(i) :
                  /\ EntryOf(i, j).published_parsed = Some(BadTime)
                  /\ EntryOf(i, j).updated_parsed = Some(T1)
           /\ \E m \in 1..2 : ItemsOf(i)[m].published = Strftime(T1)
           /\ \E m \in 1..2 : ItemsOf(i)[m].published = DateInvalid
    /\ \A m \in 1..Len(newsCall.messages) : newsCall.messages[m].level # "warning"

\* C7: called with an empty sequence, each pipeline function returns an empty
\* sequence and makes no request.
C7_EmptyInputNoRequest ==
    /\ (pc = "idle" /\ ~newsCall.hit /\ keywords_to_use = <<>>)
           => (news_data = <<>> /\ newsCall.requests = 0)
    /\ (pc # "price" /\ ~priceCall.hit /\ coin_ids_to_fetch = <<>>)
           => (price_data = <<>> /\ priceCall.requests = 0)

\* both functions were called with an empty sequence while the hosts had data
C7_Witness ==
    /\ pc = "idle"
    /\ coin_ids_to_fetch = <<>> /\ keywords_to_use = <<>>
    /\ priceResponse.kind = "json" /\ priceResponse.data # <<>>
    /\ feedResponses[1].kind = "parsed" /\ feedResponses[1].entries # <<>>
    /\ ~priceCall.hit /\ ~newsCall.hit

---------------------------------------------------------------------------
(* The cache, on the dashboard. *)

Price == "get_price_data"
News == "get_filtered_news"

\* the last call of fn whose body ran had these arguments, is less than ttl
\* seconds back, and the cache was not cleared since
RanWithin(fn, args) ==
    /\ computed[fn] # None
    /\ computed[fn][1].args = args
    /\ computed[fn][1].age < ttl
    /\ ~cleared[fn]

\* C4: a call with the inputs of a call that ran less than ttl seconds before,
\* with no cache clear in between, returns that call's result and makes no
\* request; the first call after a cache clear makes a request.
C4_CachedWithinTtl ==
    [][ /\ (pc = "price" /\ RanWithin(Price, coin_ids_to_fetch))
            => (/\ price_data' = computed[Price][1].value
                /\ priceCall'.requests = 0)
        /\ (pc = "news" /\ RanWithin(News, keywords_to_use))
            => (/\ news_data' = computed[News][1].value
                /\ newsCall'.requests = 0)
        /\ (pc = "price" /\ cleared[Price]) => priceCall'.requests = 1
        /\ (pc = "news" /\ cleared[News]) => newsCall'.requests = Len(rss_feeds)
      ]_vars

\* both results of this run came from calls that ran ttl/2 seconds before, and
\* the hosts had answered those
C4_Witness ==
    /\ pc = "idle"
    /\ priceCall.hit /\ priceCall.requests = 0 /\ price_data # <<>>
    /\ newsCall.hit /\ newsCall.requests = 0 /\ Len(news_data) = 2
    /\ RanWithin(Price, coin_ids_to_fetch) /\ computed[Price][1].age = ttl \div 2
    /\ RanWithin(News, keywords_to_use) /\ computed[News][1].age = ttl \div 2

\* the step is the pressing of the refresh button
RefreshStep == pc = "idle" /\ pc' = "price" /\ \A fn \in Fns : cleared'[fn]

\* C5: a refresh leaves no entry for any input of either pipeline, and a call
\* for which no entry is held runs the body, which fetches.
C5_RefreshClearsAll ==
    [][ /\ RefreshStep =>
               \A fn \in Fns : \A e \in cache[fn] :
                   \A x \in cache'[fn] : x.args # e.args
        /\ RefreshStep => cache' = EmptyCache
        /\ (pc = "price" /\ \A e \in cache[Price] : e.args # coin_ids_to_fetch)
               => (~priceCall'.hit /\ priceCall'.requests = 1)
        /\ (pc = "news" /\ \A e \in cache[News] : e.args # keywords_to_use)
               => (~newsCall'.hit /\ newsCall'.requests = Len(rss_feeds))
      ]_vars

\* the button was just pressed while both pipelines' last fetched results, for
\* inputs other than the configured ones, were still fresh
C5_Witness ==
    /\ pc = "price"
    /\ \A fn \in Fns : cleared[fn] /\ cache[fn] = {} /\ computed[fn] # None
    /\ computed[Price][1].args # coin_ids_to_fetch /\ computed[Price][1].age < ttl
    /\ computed[News][1].args # keywords_to_use /\ computed[News][1].age < ttl

\* the body of get_price_data ran in this run of the script
PriceRan == pc \in {"news", "idle"} /\ ~priceCall.hit /\ priceResponse # NoPriceResponse

HasError(messages) == \E m \in 1..Len(messages) : messages[m].level = "error"

\* C8: a call of get_price_data that is not served from the cache makes one
\* request; when that fails in transport or by status the function does not
\* raise, reports an error and returns the empty sequence.
C8_OneRequestNoRetry ==
    (PriceRan /\ coin_ids_to_fetch # <<>>) =>
        /\ priceCall.requests = 1
        /\ ~priceCall.raised
        /\ priceResponse.kind \in {"transport", "status"} =>
               /\ price_data = <<>>
               /\ HasError(priceCall.messages)
               /\ Len(priceCall.messages) = 1

\* the request failed by status and the script went on to the news
C8_Witness ==
    /\ PriceRan
    /\ pc = "idle"
    /\ priceResponse.kind = "status"
    /\ price_data = <<>> /\ HasError(priceCall.messages) /\ priceCall.requests = 1
    /\ newsCall # NoCall

\* the call that ran reported a failure of the price request
PriceFailed(c) == c.value = <<>> /\ HasError(c.messages)

\* the call that ran got nothing and warned of every source
NewsAllFailed(c) ==
    /\ c.value = <<>>
    /\ \A i \in Sources :
           \E m \in 1..Len(c.messages) :
               /\ c.messages[m].level = "warning"
               /\ c.messages[m].site = rss_feeds[i]
               /\ c.messages[m].what # "bozo"

\* C10: the empty result of a failed call is cached as any result is: until it
\* is ttl seconds old or the cache is cleared, a call with the same input
\* returns the empty result from the cache and asks no host, whatever the
\* hosts would answer by then.
C10_FailureIsCached ==
    [][ /\ (pc = "price" /\ pc' = "news" /\ ~priceCall'.hit
               /\ PriceFailed([value |-> price_data', messages |-> priceCall'.messages]))
            => \E e \in cache'[Price] :
                   e.args = coin_ids_to_fetch /\ e.value = <<>> /\ e.age = 0
        /\ (pc = "news" /\ pc' = "idle" /\ ~newsCall'.hit
               /\ NewsAllFailed([value |-> news_data', messages |-> newsCall'.messages]))
            => \E e \in cache'[News] :
                   e.args = keywords_to_use /\ e.value = <<>> /\ e.age = 0
        /\ (pc = "price" /\ RanWithin(Price, coin_ids_to_fetch)
               /\ PriceFailed(computed[Price][1]))
            => (price_data' = <<>> /\ priceCall'.hit /\ priceCall'.requests = 0)
        /\ (pc = "news" /\ RanWithin(News, keywords_to_use)
               /\ NewsAllFailed(computed[News][1]))
            => (news_data' = <<>> /\ newsCall'.hit /\ newsCall'.requests = 0)
      ]_vars

\* both pipelines failed ttl/2 seconds ago and this run served the empty results
\* from the cache
C10_Witness ==
    /\ pc = "idle"
    /\ priceCall.hit /\ price_data = <<>>
    /\ newsCall.hit /\ news_data = <<>>
    /\ RanWithin(Price, coin_ids_to_fetch) /\ PriceFailed(computed[Price][1])
    /\ RanWithin(News, keywords_to_use) /\ NewsAllFailed(computed[News][1])
    /\ computed[Price][1].age = ttl \div 2

===========================================================================
